---- MODULE Spec2Model ----
(***************************************************************************)
(* Certificate Monkey infrastructure (infrastructure/__main__.py).         *)
(*                                                                         *)
(* The program is a straight-line Pulumi declaration: it reads two stack   *)
(* configuration values, declares a KMS key, a KMS alias, a DynamoDB       *)
(* table, builds an IAM policy document, declares an IAM policy and        *)
(* exports seven stack outputs.  Each top-level statement of the program   *)
(* is one action; pc is the position in the file.  Strings are TLA+        *)
(* strings and f-strings are concatenations (\o), so that the names the    *)
(* program builds are the literal names.                                   *)
(*                                                                         *)
(* Values the provider assigns (key id, ARNs) are inputs of the model:     *)
(* the key id is chosen nondeterministically when the key is declared and  *)
(* the ARNs are built from the region and account of the deployment.       *)
(***************************************************************************)
EXTENDS Integers, Sequences, FiniteSets, TLC

VARIABLES
    pc,                  \* position in __main__.py
    stack_config,        \* the stack's configuration: a function key -> value
    aws_region,          \* region of the AWS provider (aws.get_region().name)
    aws_account,         \* account the provider deploys into
    py,                  \* module-level names bound by lines 15-16
    resources,           \* registered resources: logical name -> properties
    order,               \* statements executed so far, in execution order
    app_policy_document, \* statements of the policy document (<<>>: not built)
    exports              \* stack outputs: name -> value

vars == <<pc, stack_config, aws_region, aws_account, py, resources, order,
          app_policy_document, exports>>

-----------------------------------------------------------------------------
(* Inputs *)

\* Number of distinct key identifiers the provider may assign.
MaxKeys == 2

\* Values the "environment" configuration key is given in the model; the
\* empty string is a value `pulumi config set environment ""` produces.
Environments == {"", "dev", "staging", "prod"}

\* Values the "table_name" configuration key is given in the model.
TableNames == {"certificate-monkey-prod", "certs"}

Regions == {"us-east-1", "eu-west-1"}

Accounts == {"111111111111"}

KeyIds == {"key-" \o ToString(i) : i \in 1..MaxKeys}

\* A stack configuration sets any subset of the two keys the program reads.
StackConfigs ==
    LET Valid(c) ==
            /\ ("environment" \in DOMAIN c => c["environment"] \in Environments)
            /\ ("table_name" \in DOMAIN c => c["table_name"] \in TableNames)
    IN  { c \in UNION { [K -> Environments \cup TableNames] :
                          K \in SUBSET {"environment", "table_name"} } : Valid(c) }

-----------------------------------------------------------------------------
(* Program constants and helpers *)

deletion_window_in_days == 7

\* Logical (Pulumi) names of the four resources.
KeyName    == "certificate-monkey-kms-key"
AliasName  == "certificate-monkey-kms-alias"
TableName  == "certificate-monkey-table"
PolicyName == "certificate-monkey-app-policy"

\* pulumi.Config.get(key, default): the configured value when the key is set,
\* the default otherwise.
ConfigGetDefaultAlways(cfg, key, default) == default

ConfigGet(cfg, key, default) ==
    IF key \in DOMAIN cfg THEN cfg[key] ELSE default

\* aws.get_region().name
GetRegionFixed == "us-east-1"

GetRegion == aws_region

\* Outputs the provider resolves for a declared resource.
KmsKeyArn(key_id) ==
    "arn:aws:kms:" \o aws_region \o ":" \o aws_account \o ":key/" \o key_id

TableArn(name) ==
    "arn:aws:dynamodb:" \o aws_region \o ":" \o aws_account \o ":table/" \o name

PolicyArn(name) ==
    "arn:aws:iam::" \o aws_account \o ":policy/" \o name

\* The module-level names of the program.
environment    == py["environment"]
table_name     == py["table_name"]
kms_key        == resources[KeyName]
kms_alias      == resources[AliasName]
dynamodb_table == resources[TableName]
app_policy     == resources[PolicyName]

EmptyMap == [x \in {} |-> x]

Declared(n) == n \in DOMAIN resources

\* Constructing a resource registers it under its logical name.
Register(n, props) == resources' = (n :> props) @@ resources

-----------------------------------------------------------------------------
(* Initial state: nothing read, nothing declared *)

Init ==
    /\ pc = "config"
    /\ stack_config \in StackConfigs
    /\ aws_region \in Regions
    /\ aws_account \in Accounts
    /\ py = EmptyMap
    /\ resources = EmptyMap
    /\ order = << >>
    /\ app_policy_document = << >>
    /\ exports = EmptyMap

-----------------------------------------------------------------------------
(* Lines 14-16: configuration *)

ReadConfigOrDev ==
    /\ pc = "config"
    /\ LET c == ConfigGet(stack_config, "environment", "dev")
           env == IF c = "" THEN "dev" ELSE c
       IN  py' = [environment |-> env,
                  table_name  |-> ConfigGet(stack_config, "table_name",
                                            "certificate-monkey-" \o env)]
    /\ pc' = "kms_key"
    /\ UNCHANGED <<stack_config, aws_region, aws_account, resources, order,
                   app_policy_document, exports>>

ReadConfig ==
    /\ pc = "config"
    /\ LET env == ConfigGet(stack_config, "environment", "dev")
       IN  py' = [environment |-> env,
                  table_name  |-> ConfigGet(stack_config, "table_name",
                                            "certificate-monkey-" \o env)]
    /\ pc' = "kms_key"
    /\ UNCHANGED <<stack_config, aws_region, aws_account, resources, order,
                   app_policy_document, exports>>

-----------------------------------------------------------------------------
(* Lines 19-29: KMS key *)

KmsKeyTagsDev ==
    [Name        |-> "certificate-monkey-" \o environment,
     Environment |-> "dev",
     Application |-> "certificate-monkey",
     Purpose     |-> "private-key-encryption"]

KmsKeyTags ==
    [Name        |-> "certificate-monkey-" \o environment,
     Environment |-> environment,
     Application |-> "certificate-monkey",
     Purpose     |-> "private-key-encryption"]

DeclareKmsKey ==
    /\ pc = "kms_key"
    /\ \E id \in KeyIds :
          Register(KeyName,
                   [description |-> "Certificate Monkey private key encryption",
                    deletion_window_in_days |-> deletion_window_in_days,
                    tags   |-> KmsKeyTags,
                    key_id |-> id,
                    arn    |-> KmsKeyArn(id)])
    /\ order' = Append(order, "kms_key")
    /\ pc' = "kms_alias"
    /\ UNCHANGED <<stack_config, aws_region, aws_account, py,
                   app_policy_document, exports>>

-----------------------------------------------------------------------------
(* Lines 32-36: KMS alias *)

DeclareKmsAliasFixedKey ==
    /\ pc = "kms_alias"
    /\ Register(AliasName,
                [name          |-> "alias/certificate-monkey-" \o environment,
                 target_key_id |-> "key-1"])
    /\ order' = Append(order, "kms_alias")
    /\ pc' = "dynamodb_table"
    /\ UNCHANGED <<stack_config, aws_region, aws_account, py,
                   app_policy_document, exports>>

DeclareKmsAlias ==
    /\ pc = "kms_alias"
    /\ Register(AliasName,
                [name          |-> "alias/certificate-monkey-" \o environment,
                 target_key_id |-> kms_key.key_id])
    /\ order' = Append(order, "kms_alias")
    /\ pc' = "dynamodb_table"
    /\ UNCHANGED <<stack_config, aws_region, aws_account, py,
                   app_policy_document, exports>>

-----------------------------------------------------------------------------
(* Lines 39-78: DynamoDB table *)

TableAttributesIdOnly == << [name |-> "id", type |-> "S"] >>

TableAttributes ==
    << [name |-> "id", type |-> "S"],
       [name |-> "created_at", type |-> "S"] >>

TableGlobalSecondaryIndexes ==
    << [name            |-> "created_at-index",
        hash_key        |-> "created_at",
        projection_type |-> "ALL"] >>

TableServerSideEncryptionProdOnly ==
    [enabled |-> (environment = "prod"), kms_key_arn |-> kms_key.arn]

TableServerSideEncryption ==
    [enabled |-> TRUE, kms_key_arn |-> kms_key.arn]

TablePointInTimeRecovery == [enabled |-> TRUE]

TableTags ==
    [Name        |-> table_name,
     Environment |-> environment,
     Application |-> "certificate-monkey",
     Purpose     |-> "certificate-storage"]

DeclareDynamoTable ==
    /\ pc = "dynamodb_table"
    /\ Register(TableName,
                [name                     |-> table_name,
                 billing_mode             |-> "PAY_PER_REQUEST",
                 hash_key                 |-> "id",
                 attributes               |-> TableAttributes,
                 global_secondary_indexes |-> TableGlobalSecondaryIndexes,
                 server_side_encryption   |-> TableServerSideEncryption,
                 point_in_time_recovery   |-> TablePointInTimeRecovery,
                 tags                     |-> TableTags,
                 arn                      |-> TableArn(table_name)])
    /\ order' = Append(order, "dynamodb_table")
    /\ pc' = "app_policy_document"
    /\ UNCHANGED <<stack_config, aws_region, aws_account, py,
                   app_policy_document, exports>>

-----------------------------------------------------------------------------
(* Lines 81-115: policy document *)

DynamoStatementDevTable ==
    [effect     |-> "Allow",
     actions    |-> << "dynamodb:PutItem", "dynamodb:GetItem",
                       "dynamodb:UpdateItem", "dynamodb:DeleteItem",
                       "dynamodb:Scan" >>,
     resources  |-> << TableArn("certificate-monkey-dev"),
                       TableArn("certificate-monkey-dev") \o "/index/*" >>,
     conditions |-> << >>]

DynamoStatement ==
    [effect     |-> "Allow",
     actions    |-> << "dynamodb:PutItem", "dynamodb:GetItem",
                       "dynamodb:UpdateItem", "dynamodb:DeleteItem",
                       "dynamodb:Scan" >>,
     resources  |-> << dynamodb_table.arn, dynamodb_table.arn \o "/index/*" >>,
     conditions |-> << >>]

KmsStatement ==
    [effect     |-> "Allow",
     actions    |-> << "kms:Encrypt", "kms:Decrypt" >>,
     resources  |-> << kms_key.arn >>,
     conditions |-> << [test     |-> "StringEquals",
                        variable |-> "kms:ViaService",
                        values   |-> << "dynamodb." \o GetRegion
                                          \o ".amazonaws.com" >>] >>]

GetPolicyDocument ==
    /\ pc = "app_policy_document"
    /\ app_policy_document' = << DynamoStatement, KmsStatement >>
    /\ order' = Append(order, "app_policy_document")
    /\ pc' = "app_policy"
    /\ UNCHANGED <<stack_config, aws_region, aws_account, py, resources,
                   exports>>

-----------------------------------------------------------------------------
(* Lines 118-128: IAM policy *)

DeclareIamPolicy ==
    /\ pc = "app_policy"
    /\ LET name == "certificate-monkey-" \o environment \o "-policy"
       IN  Register(PolicyName,
                    [name        |-> name,
                     description |-> "IAM policy for Certificate Monkey application",
                     policy      |-> app_policy_document,
                     tags        |-> [Name        |-> name,
                                      Environment |-> environment,
                                      Application |-> "certificate-monkey"],
                     arn         |-> PolicyArn(name)])
    /\ order' = Append(order, "app_policy")
    /\ pc' = "exports"
    /\ UNCHANGED <<stack_config, aws_region, aws_account, py,
                   app_policy_document, exports>>

-----------------------------------------------------------------------------
(* Lines 131-143: stack outputs *)

EnvironmentVariablesRawKey ==
    [DYNAMODB_TABLE |-> dynamodb_table.name,
     KMS_KEY_ID     |-> kms_key.key_id,
     AWS_REGION     |-> GetRegion]

EnvironmentVariablesDefaultTable ==
    [DYNAMODB_TABLE |-> "certificate-monkey-" \o environment,
     KMS_KEY_ID     |-> kms_alias.name,
     AWS_REGION     |-> GetRegion]

EnvironmentVariables ==
    [DYNAMODB_TABLE |-> dynamodb_table.name,
     KMS_KEY_ID     |-> kms_alias.name,
     AWS_REGION     |-> GetRegion]

ExportOutputs ==
    /\ pc = "exports"
    /\ exports' = [dynamodb_table_name   |-> dynamodb_table.name,
                   dynamodb_table_arn    |-> dynamodb_table.arn,
                   kms_key_id            |-> kms_key.key_id,
                   kms_key_arn           |-> kms_key.arn,
                   kms_alias_name        |-> kms_alias.name,
                   iam_policy_arn        |-> app_policy.arn,
                   environment_variables |-> EnvironmentVariables]
    /\ order' = Append(order, "exports")
    /\ pc' = "done"
    /\ UNCHANGED <<stack_config, aws_region, aws_account, py, resources,
                   app_policy_document>>

-----------------------------------------------------------------------------

Next ==
    \/ ReadConfig
    \/ DeclareKmsKey
    \/ DeclareKmsAlias
    \/ DeclareDynamoTable
    \/ GetPolicyDocument
    \/ DeclareIamPolicy
    \/ ExportOutputs

Spec == Init /\ [][Next]_vars

-----------------------------------------------------------------------------
(* Vocabulary of the properties *)

Range(seq) == { seq[i] : i \in DOMAIN seq }

\* The environment the stack is configured for: the configured value, and
\* "dev" for a stack that does not set the key.
ConfiguredEnvironment ==
    IF "environment" \in DOMAIN stack_config
    THEN stack_config["environment"] ELSE "dev"

OverrideSupplied == "table_name" \in DOMAIN stack_config

DocumentBuilt == Len(app_policy_document) > 0

\* The statements of the document that allow a KMS data operation.
KmsAllowStatements ==
    { s \in Range(app_policy_document) :
        /\ s.effect = "Allow"
        /\ Range(s.actions) \cap {"kms:Encrypt", "kms:Decrypt"} # {} }

ViaService == "dynamodb." \o aws_region \o ".amazonaws.com"

\* The environments e for which `name` is prefix <e> suffix.
EnvsOfName(prefix, name, suffix) ==
    { e \in Environments : name = prefix \o e \o suffix }

BuildOrder ==
    << "kms_key", "kms_alias", "dynamodb_table", "app_policy_document",
       "app_policy", "exports" >>

-----------------------------------------------------------------------------
(* Properties *)

\* C1: once the policy document is built, it has a statement allowing
\* kms:Encrypt / kms:Decrypt, and every such statement carries exactly one
\* condition, on kms:ViaService, whose only value is
\* dynamodb.<region>.amazonaws.com for the region of the build (us-east-1
\* gives dynamodb.us-east-1.amazonaws.com).
C1_KmsViaServiceCondition ==
    DocumentBuilt =>
        /\ KmsAllowStatements # {}
        /\ \A s \in KmsAllowStatements :
              /\ Len(s.conditions) = 1
              /\ s.conditions[1].variable = "kms:ViaService"
              /\ s.conditions[1].values = << ViaService >>
              /\ (aws_region = "us-east-1" =>
                    s.conditions[1].values = << "dynamodb.us-east-1.amazonaws.com" >>)

C1_Witness ==
    /\ pc = "done"
    /\ aws_region = "eu-west-1"
    /\ app_policy.policy[2].conditions[1].values
          = << "dynamodb.eu-west-1.amazonaws.com" >>

\* C2: whatever the configuration, the declared table has server-side
\* encryption enabled with the ARN of the key declared in the same build,
\* and point-in-time recovery enabled.
C2_TableEncryptedAndRecoverable ==
    Declared(TableName) =>
        /\ dynamodb_table.server_side_encryption.enabled = TRUE
        /\ Declared(KeyName)
        /\ dynamodb_table.server_side_encryption.kms_key_arn = kms_key.arn
        /\ dynamodb_table.point_in_time_recovery.enabled = TRUE

C2_Witness ==
    /\ Declared(TableName)
    /\ OverrideSupplied
    /\ ConfiguredEnvironment = "dev"
    /\ dynamodb_table.server_side_encryption.enabled

\* C3: the exported environment_variables.KMS_KEY_ID is the name of the alias
\* declared in the build, alias/certificate-monkey-<environment>, and is not
\* the raw key identifier exported as kms_key_id.
C3_KmsKeyIdIsAliasName ==
    pc = "done" =>
        /\ exports.environment_variables.KMS_KEY_ID
              = "alias/certificate-monkey-" \o ConfiguredEnvironment
        /\ exports.environment_variables.KMS_KEY_ID = kms_alias.name
        /\ exports.environment_variables.KMS_KEY_ID # exports.kms_key_id

C3_Witness ==
    /\ pc = "done"
    /\ exports.environment_variables.KMS_KEY_ID = "alias/certificate-monkey-prod"
    /\ exports.kms_key_id = "key-2"

\* C4: for a non-empty environment, the declared table name is the table_name
\* override when one is configured and certificate-monkey-<environment>
\* otherwise, the environment being "dev" when it is not configured.
C4_TableName ==
    (Declared(TableName) /\ ConfiguredEnvironment # "") =>
        dynamodb_table.name =
            IF OverrideSupplied
            THEN stack_config["table_name"]
            ELSE "certificate-monkey-" \o ConfiguredEnvironment

C4_Witness ==
    /\ Declared(TableName)
    /\ "environment" \notin DOMAIN stack_config
    /\ ~OverrideSupplied
    /\ dynamodb_table.name = "certificate-monkey-dev"

\* C5 as stated: with the environment configured as the empty string, no
\* resource, document or output is ever produced.
C5_EmptyEnvironmentRejected ==
    ConfiguredEnvironment = "" =>
        /\ DOMAIN resources = {}
        /\ ~DocumentBuilt
        /\ DOMAIN exports = {}

\* C5 amended: the program does not validate the environment.  With the
\* environment configured as the empty string the build runs every step to
\* the end, and the resources carry the names built from the empty string:
\* certificate-monkey-, alias/certificate-monkey-, certificate-monkey--policy.
C5_EmptyEnvironmentBuilds ==
    ConfiguredEnvironment = "" =>
        /\ (pc # "done" => ENABLED Next)
        /\ (pc # "config" => environment = "")
        /\ (Declared(KeyName) => kms_key.tags.Name = "certificate-monkey-")
        /\ (Declared(AliasName) => kms_alias.name = "alias/certificate-monkey-")
        /\ (Declared(TableName) =>
              dynamodb_table.name = IF OverrideSupplied
                                    THEN stack_config["table_name"]
                                    ELSE "certificate-monkey-")
        /\ (Declared(PolicyName) => app_policy.name = "certificate-monkey--policy")
        /\ (pc = "done" =>
              /\ DOMAIN resources = {KeyName, AliasName, TableName, PolicyName}
              /\ exports.kms_alias_name = "alias/certificate-monkey-")

C5_Witness ==
    /\ ConfiguredEnvironment = ""
    /\ pc = "done"
    /\ ~OverrideSupplied
    /\ exports.dynamodb_table_name = "certificate-monkey-"

\* C6: the policy document has exactly two statements, both Allow: the five
\* DynamoDB item actions on the ARN of the table declared in the build and on
\* that ARN followed by /index/*, and kms:Encrypt and kms:Decrypt on the ARN
\* of the key declared in the build.
C6_PolicyDocumentStatements ==
    DocumentBuilt =>
        /\ Len(app_policy_document) = 2
        /\ \A i \in 1..2 : app_policy_document[i].effect = "Allow"
        /\ Declared(TableName) /\ Declared(KeyName)
        /\ Range(app_policy_document[1].actions)
              = {"dynamodb:PutItem", "dynamodb:GetItem", "dynamodb:UpdateItem",
                 "dynamodb:DeleteItem", "dynamodb:Scan"}
        /\ Len(app_policy_document[1].actions) = 5
        /\ app_policy_document[1].resources
              = << dynamodb_table.arn, dynamodb_table.arn \o "/index/*" >>
        /\ Range(app_policy_document[2].actions) = {"kms:Encrypt", "kms:Decrypt"}
        /\ Len(app_policy_document[2].actions) = 2
        /\ app_policy_document[2].resources = << kms_key.arn >>
        /\ (Declared(PolicyName) => app_policy.policy = app_policy_document)

C6_Witness ==
    /\ Declared(PolicyName)
    /\ OverrideSupplied
    /\ app_policy.policy[1].resources[2] = TableArn("certs") \o "/index/*"

\* C7: the table's attributes contain id and created_at and cover the table
\* hash key and every index hash key; there is exactly one global secondary
\* index, on created_at, projecting ALL.
C7_TableSchema ==
    Declared(TableName) =>
        LET names == { a.name : a \in Range(dynamodb_table.attributes) }
            gsis  == dynamodb_table.global_secondary_indexes
        IN  /\ {"id", "created_at"} \subseteq names
            /\ dynamodb_table.hash_key \in names
            /\ \A g \in Range(gsis) : g.hash_key \in names
            /\ Len(gsis) = 1
            /\ gsis[1].hash_key = "created_at"
            /\ gsis[1].projection_type = "ALL"

C7_Witness ==
    /\ Declared(TableName)
    /\ dynamodb_table.hash_key = "id"
    /\ Len(dynamodb_table.global_secondary_indexes) = 1

\* The environments the names and tags of a finished build encode.
EncodedEnvironments ==
    UNION { EnvsOfName("certificate-monkey-", kms_key.tags.Name, ""),
            { kms_key.tags.Environment },
            EnvsOfName("alias/certificate-monkey-", kms_alias.name, ""),
            EnvsOfName("certificate-monkey-", dynamodb_table.name, ""),
            EnvsOfName("certificate-monkey-", dynamodb_table.tags.Name, ""),
            { dynamodb_table.tags.Environment },
            EnvsOfName("certificate-monkey-", app_policy.name, "-policy"),
            EnvsOfName("certificate-monkey-", app_policy.tags.Name, "-policy"),
            { app_policy.tags.Environment } }

\* C8 as stated: in every finished build, also with a table_name override,
\* all names and tags that encode an environment encode the same one.
C8_OneEnvironmentEverywhere ==
    pc = "done" => Cardinality(EncodedEnvironments) = 1

\* C8 amended: the key tags, the alias name, the table's Environment tag and
\* the policy name and tags all encode the configured environment; the table
\* name and its Name tag encode it when no table_name override is configured,
\* and are the override verbatim (which may name another environment) when
\* one is.
C8_DerivedNamesAgree ==
    LET e == ConfiguredEnvironment IN
        /\ (Declared(KeyName) =>
              /\ kms_key.tags.Name = "certificate-monkey-" \o e
              /\ kms_key.tags.Environment = e)
        /\ (Declared(AliasName) =>
              kms_alias.name = "alias/certificate-monkey-" \o e)
        /\ (Declared(TableName) =>
              /\ dynamodb_table.tags.Environment = e
              /\ dynamodb_table.tags.Name = dynamodb_table.name
              /\ (~OverrideSupplied =>
                    dynamodb_table.name = "certificate-monkey-" \o e)
              /\ (OverrideSupplied =>
                    dynamodb_table.name = stack_config["table_name"]))
        /\ (Declared(PolicyName) =>
              /\ app_policy.name = "certificate-monkey-" \o e \o "-policy"
              /\ app_policy.tags.Name = app_policy.name
              /\ app_policy.tags.Environment = e)

C8_Witness ==
    /\ pc = "done"
    /\ ConfiguredEnvironment = "staging"
    /\ dynamodb_table.name = "certificate-monkey-prod"
    /\ dynamodb_table.tags.Environment = "staging"
    /\ app_policy.tags.Name = "certificate-monkey-staging-policy"

\* C9: the statements run once each in the order key, alias, table, policy
\* document, policy, outputs; what has been declared is exactly what the
\* executed statements declare, so every resource finds the ones it depends
\* on: the alias targets the key id of the key of the same build.
C9_SingleForwardPass ==
    /\ Len(order) <= Len(BuildOrder)
    /\ order = SubSeq(BuildOrder, 1, Len(order))
    /\ (pc = "done" <=> order = BuildOrder)
    /\ (Declared(KeyName) <=> "kms_key" \in Range(order))
    /\ (Declared(AliasName) <=> "kms_alias" \in Range(order))
    /\ (Declared(TableName) <=> "dynamodb_table" \in Range(order))
    /\ (DocumentBuilt <=> "app_policy_document" \in Range(order))
    /\ (Declared(PolicyName) <=> "app_policy" \in Range(order))
    /\ (DOMAIN exports # {} <=> "exports" \in Range(order))
    /\ (Declared(AliasName) =>
          /\ Declared(KeyName)
          /\ kms_alias.target_key_id = kms_key.key_id)

C9_Witness ==
    /\ order = BuildOrder
    /\ kms_alias.target_key_id = "key-2"
    /\ kms_key.key_id = "key-2"

\* C10: the exported environment_variables map has exactly the keys
\* DYNAMODB_TABLE, KMS_KEY_ID and AWS_REGION; DYNAMODB_TABLE is the exported
\* dynamodb_table_name (the override when one is configured) and AWS_REGION
\* is the region of the kms:ViaService condition value; staging without an
\* override in eu-west-1 gives the values of the end-to-end scenario.
C10_EnvironmentVariables ==
    pc = "done" =>
        LET ev == exports.environment_variables IN
        /\ DOMAIN ev = {"DYNAMODB_TABLE", "KMS_KEY_ID", "AWS_REGION"}
        /\ ev.DYNAMODB_TABLE = exports.dynamodb_table_name
        /\ (OverrideSupplied => ev.DYNAMODB_TABLE = stack_config["table_name"])
        /\ ev.AWS_REGION = aws_region
        /\ \A s \in KmsAllowStatements :
              s.conditions[1].values
                 = << "dynamodb." \o ev.AWS_REGION \o ".amazonaws.com" >>
        /\ ((ConfiguredEnvironment = "staging" /\ ~OverrideSupplied
               /\ aws_region = "eu-west-1") =>
              /\ ev = [DYNAMODB_TABLE |-> "certificate-monkey-staging",
                       KMS_KEY_ID     |-> "alias/certificate-monkey-staging",
                       AWS_REGION     |-> "eu-west-1"]
              /\ \A s \in KmsAllowStatements :
                    s.conditions[1].values
                       = << "dynamodb.eu-west-1.amazonaws.com" >>)

C10_Witness ==
    /\ pc = "done"
    /\ ConfiguredEnvironment = "staging"
    /\ ~OverrideSupplied
    /\ exports.environment_variables
          = [DYNAMODB_TABLE |-> "certificate-monkey-staging",
             KMS_KEY_ID     |-> "alias/certificate-monkey-staging",
             AWS_REGION     |-> "eu-west-1"]

====
